---- MODULE Spec2Model ----
(***************************************************************************)
(* Model of the Object binding layer of v8go (src/object.go): value        *)
(* coercion, property access by name / symbol / index, internal fields,    *)
(* the prototype link and MethodCall.  The engine behind the cgo boundary  *)
(* (the C.Object* functions, NewValue, valueResult, AsFunction, Call) is   *)
(* not part of object.go; it is modelled from the specification.           *)
(***************************************************************************)
EXTENDS Integers, Sequences, FiniteSets, TLC

VARIABLES props, proto, fields, fieldLog, last

vars == <<props, proto, fields, fieldLog, last>>

(* ---------------------------------------------------------------- bounds *)

\* At most this many own properties and written internal fields exist at once.
MaxSlots == 2

(* ---------------------------------------------------------- engine values *)

\* An engine value: type tag t, string payload s, numeric payload n, elements e.
Val(t, s, n) == [t |-> t, s |-> s, n |-> n, e |-> <<>>]

Undefined == Val("undefined", "", 0)
NullVal == Val("null", "", 0)
\* No *Value at all (Go nil pointer).
NilValue == Val("nil", "", 0)
\* Marks a property slot that holds nothing.
Absent == Val("absent", "", 0)
\* A property defined by script with a getter that throws and no setter: it
\* cannot be written.
Accessor == Val("accessor", "", 0)

ObjVal(o) == Val("Object", o, 0)
FnOk == Val("Function", "FnOk", 0)
FnThrow == Val("Function", "FnThrow", 0)
ArrayVal(elems) == [t |-> "Array", s |-> "", n |-> 0, e |-> elems]

Objs == {"o1", "o2"}
NoObj == "null"

\* Property keys: a string name, a Symbol handle, or a uint32 index.
Key(kind, s, n) == [kind |-> kind, s |-> s, n |-> n]
NameKeys == {Key("name", "k", 0)}
SymbolKeys == {Key("symbol", "sym", 0)}
IdxKeys == {Key("index", "", 0)}
Keys == NameKeys \cup SymbolKeys \cup IdxKeys
NoKey == Key("none", "", 0)

(* ------------------------------------------------------------------ errors *)

Err(kind, detail) == [kind |-> kind, detail |-> detail]
Nil == Err("nil", "")
UnsupportedType(typeName) == Err("UnsupportedType", typeName)
JSError(what) == Err("JSError", what)
NotAFunction == Err("NotAFunction", "")

(* ---------------------------------------------------------- host inputs *)

\* A Go interface{} value: dynamic type go, payloads s / n, and for a Valuer
\* the *Value it yields.
GoVal(go, s, n, v) == [go |-> go, s |-> s, n |-> n, v |-> v]

PrimitiveTypes ==
    {"string", "int32", "uint32", "int64", "uint64", "float64", "bool", "*big.Int"}

\* Values that exist in the engine and can be handed in as a Valuer.
ValuerValues == {FnOk, FnThrow}

AllInputs ==
    {GoVal("string", x, 0, NilValue) : x \in {"", "a"}}
    \cup {GoVal(t, "", n, NilValue) : t \in {"int32", "int64", "float64", "*big.Int"},
                                      n \in {-1, 1}}
    \cup {GoVal(t, "", n, NilValue) : t \in {"uint32", "uint64", "bool"}, n \in {0, 1}}
    \cup {GoVal("Valuer", "", 0, v) : v \in ValuerValues \cup {Undefined, ObjVal("o2")}}
    \cup {GoVal(t, "", 0, NilValue) : t \in {"int", "nil", "map[string]int"}}

\* Inputs of the write operations: a primitive, the Valuers, an unsupported type.
WriteInputs ==
    {GoVal("string", "a", 0, NilValue), GoVal("int", "", 0, NilValue)}
    \cup {GoVal("Valuer", "", 0, v) : v \in ValuerValues}

\* Inputs of SetInternalField: a primitive, a Valuer, an unsupported type.
FieldInputs ==
    {GoVal("string", "a", 0, NilValue), GoVal("int", "", 0, NilValue),
     GoVal("Valuer", "", 0, FnOk)}

(* --------------------------------------------------------------- NewValue *)

\* value.go NewValue: the engine type each Go primitive becomes.
EngineType(go) ==
    CASE go = "string" -> "String"
      [] go = "int32" -> "Int32"
      [] go = "uint32" -> "Uint32"
      [] go \in {"int64", "uint64", "*big.Int"} -> "BigInt"
      [] go = "float64" -> "Number"
      [] go = "bool" -> "Boolean"
      [] OTHER -> "none"

NewValue(val) ==
    IF val.go \in PrimitiveTypes
    THEN [value |-> Val(EngineType(val.go), val.s, val.n), err |-> Nil]
    ELSE [value |-> NilValue, err |-> Err("NewValue", val.go)]

(* ------------------------------------------------------------ coerceValue *)

coerceValue_NoDefault(val) ==
    IF val.go \in PrimitiveTypes
    THEN [value |-> NewValue(val).value, err |-> Nil, trace |-> <<"NewValue">>]
    ELSE [value |-> val.v, err |-> Nil, trace |-> <<>>]

\* The type switch: primitives allocate through NewValue (its error ignored),
\* a Valuer yields its own value, anything else is an error.
coerceValue(val) ==
    CASE val.go \in PrimitiveTypes ->
           [value |-> NewValue(val).value, err |-> Nil, trace |-> <<"NewValue">>]
      [] val.go = "Valuer" ->
           [value |-> val.v, err |-> Nil, trace |-> <<>>]
      [] OTHER ->
           [value |-> NilValue, err |-> UnsupportedType(val.go), trace |-> <<>>]

(* ------------------------------------------------ engine (behind cgo) *)

\* Internal field count of each object: o1 is an instance of a template that
\* declares two internal fields, o2 is not a template instance.
FieldCount(o) == IF o = "o1" THEN 2 ELSE 0

\* Objects reached from o along the prototype links, o included.
RECURSIVE ChainFrom(_, _)
ChainFrom(o, fuel) ==
    IF o = NoObj \/ fuel = 0 THEN {}
    ELSE {o} \cup ChainFrom(proto[o], fuel - 1)

Chain(o) == ChainFrom(o, Cardinality(Objs))

\* The first object on o's prototype chain that owns key k, or NoObj.
RECURSIVE OwnerFrom(_, _, _)
OwnerFrom(o, k, fuel) ==
    IF o = NoObj \/ fuel = 0 THEN NoObj
    ELSE IF props[o][k] # Absent THEN o
    ELSE OwnerFrom(proto[o], k, fuel - 1)

Owner(o, k) == OwnerFrom(o, k, Cardinality(Objs))

\* ObjectGet / ObjectGetAnyKey / ObjectGetIdx: (Value|null, Error|null).
ObjectGet(o, k) ==
    LET w == Owner(o, k) IN
    IF w = NoObj THEN [value |-> Undefined, error |-> Nil]
    ELSE IF props[w][k] = Accessor
    THEN [value |-> NilValue, error |-> JSError("getter")]
    ELSE [value |-> props[w][k], error |-> Nil]

\* ObjectHas*: HasProperty, own or on the prototype chain.
ObjectHas(o, k) == Owner(o, k) # NoObj

\* ObjectSet*: returns nothing; ok is what the engine did, unseen by the host.
\* A property that resolves to the accessor cannot be written.
ObjectSet(o, k, v) ==
    LET w == Owner(o, k) IN
    IF w # NoObj /\ props[w][k] = Accessor
    THEN [props |-> props, ok |-> FALSE]
    ELSE [props |-> [props EXCEPT ![o][k] = v], ok |-> TRUE]

\* ObjectDelete*: true iff an own property was removed.
ObjectDelete(o, k) ==
    IF props[o][k] \in {Absent, Accessor}
    THEN [props |-> props, deleted |-> FALSE]
    ELSE [props |-> [props EXCEPT ![o][k] = Absent], deleted |-> TRUE]

ObjectInternalFieldCount(o) == FieldCount(o)

\* ObjectSetInternalField: inserted iff the index is within the slot array.
ObjectSetInternalField(o, i, v) ==
    IF 0 <= i /\ i < FieldCount(o)
    THEN [fields |-> [fields EXCEPT ![o][i + 1] = v], inserted |-> TRUE]
    ELSE [fields |-> fields, inserted |-> FALSE]

\* ObjectGetInternalField: (Value|null, Error|null).
ObjectGetInternalField(o, i) ==
    IF 0 <= i /\ i < FieldCount(o)
    THEN [value |-> fields[o][i + 1], error |-> Nil]
    ELSE [value |-> NilValue, error |-> JSError("internal field index out of range")]

ObjectGetPrototype(o) ==
    IF proto[o] = NoObj THEN NullVal ELSE ObjVal(proto[o])

\* ObjectSetPrototype: returns nothing; the engine refuses a cyclic chain.
ObjectSetPrototype(o, p) ==
    IF p # NoObj /\ o \in Chain(p)
    THEN [proto |-> proto, ok |-> FALSE]
    ELSE [proto |-> [proto EXCEPT ![o] = p], ok |-> TRUE]

\* valueResult: a boundary (value, error) pair as (*Value, error).
valueResult(rtn) ==
    IF rtn.value = NilValue
    THEN [value |-> NilValue, err |-> rtn.error]
    ELSE [value |-> rtn.value, err |-> Nil]

\* Value.AsFunction: only a function value converts.
AsFunction(v) ==
    IF v.t = "Function"
    THEN [fn |-> v, err |-> Nil]
    ELSE [fn |-> NilValue, err |-> NotAFunction]

\* Function.Call: FnOk returns [this, ...args]; FnThrow throws.
Call(fn, recv, args) ==
    IF fn = FnOk
    THEN [value |-> ArrayVal(<<ObjVal(recv)>> \o args), err |-> Nil]
    ELSE [value |-> NilValue, err |-> JSError("thrown")]

\* A uint32 as its top bit and its low 31 bits, so that every value stays
\* within 32-bit signed arithmetic.
U32(hi, lo) == [hi |-> hi, lo |-> lo]

\* idx >= n for a uint32 idx and a small natural n.
U32AtLeast(idx, n) == idx.hi = 1 \/ idx.lo >= n

\* C.int(idx) of a uint32: two's complement, 32 bits.
CInt(idx) == IF idx.hi = 1 THEN idx.lo - 2147483647 - 1 ELSE idx.lo

(* ------------------------------------------------------- operation record *)

\* What the last operation was given and what it gave back.  flag is a bool
\* result, num a count, engineOk whether the boundary call took effect, trace
\* the allocations, buffer events and boundary calls in order, calls the
\* function invocations made, changed the parts of the engine state that
\* differ from before the operation.
NoResult ==
    [op |-> "init", obj |-> NoObj, key |-> NoKey, idx |-> U32(0, 0),
     input |-> GoVal("nil", "", 0, NilValue), args |-> <<>>, target |-> NoObj,
     rtn |-> NilValue, flag |-> FALSE, num |-> 0, err |-> Nil,
     panic |-> FALSE, engineOk |-> TRUE, trace |-> <<>>, calls |-> <<>>,
     changed |-> {}]

Outcome(p, r, f, l) == [props |-> p, proto |-> r, fields |-> f, last |-> l]

(* --------------------------------------------------- Object's methods *)

\* Each method is given the receiver and its arguments and yields the engine
\* state it leaves and the record of what it returned.

KeyEvents_NoFree(k, call) ==
    IF k.kind = "name" THEN <<"CString", call>> ELSE <<call>>

\* Name-keyed calls copy the key with C.CString and free it by defer.
KeyEvents(k, call) ==
    IF k.kind = "name" THEN <<"CString", call, "free">> ELSE <<call>>

SetCall(k) ==
    CASE k.kind = "name" -> "C.ObjectSet"
      [] k.kind = "symbol" -> "C.ObjectSetAnyKey"
      [] OTHER -> "C.ObjectSetIdx"

Set_BoundaryFirst(o, k, val) ==
    LET c == coerceValue(val)
        e == ObjectSet(o, k, c.value)
        l == [NoResult EXCEPT !.op = "Set", !.obj = o, !.key = k, !.input = val,
                              !.engineOk = e.ok,
                              !.trace = c.trace \o KeyEvents(k, SetCall(k))]
    IN  Outcome(e.props, proto, fields, [l EXCEPT !.err = c.err])

\* Object.Set / Object.SetSymbol / Object.SetIdx, by the kind of key.
Set(o, k, val) ==
    LET c == coerceValue(val)
        e == ObjectSet(o, k, c.value)
        l == [NoResult EXCEPT !.op = "Set", !.obj = o, !.key = k, !.input = val]
    IN  IF c.err # Nil
        THEN Outcome(props, proto, fields,
                     [l EXCEPT !.err = c.err, !.trace = c.trace])
        ELSE Outcome(e.props, proto, fields,
                     [l EXCEPT !.err = Nil, !.engineOk = e.ok,
                               !.trace = c.trace \o KeyEvents(k, SetCall(k))])

GetCall(k) ==
    CASE k.kind = "name" -> "C.ObjectGet"
      [] k.kind = "symbol" -> "C.ObjectGetAnyKey"
      [] OTHER -> "C.ObjectGetIdx"

\* Object.Get / Object.GetSymbol / Object.GetIdx.
Get(o, k) ==
    LET r == valueResult(ObjectGet(o, k))
    IN  Outcome(props, proto, fields,
                [NoResult EXCEPT !.op = "Get", !.obj = o, !.key = k,
                                 !.rtn = r.value, !.err = r.err,
                                 !.trace = KeyEvents(k, GetCall(k))])

HasCall(k) ==
    CASE k.kind = "name" -> "C.ObjectHas"
      [] k.kind = "symbol" -> "C.ObjectHasAnyKey"
      [] OTHER -> "C.ObjectHasIdx"

Has_Inverted(o, k) ==
    Outcome(props, proto, fields,
            [NoResult EXCEPT !.op = "Has", !.obj = o, !.key = k,
                             !.flag = ~ObjectHas(o, k),
                             !.trace = KeyEvents(k, HasCall(k))])

\* Object.Has / Object.HasSymbol / Object.HasIdx.
Has(o, k) ==
    Outcome(props, proto, fields,
            [NoResult EXCEPT !.op = "Has", !.obj = o, !.key = k,
                             !.flag = ObjectHas(o, k),
                             !.trace = KeyEvents(k, HasCall(k))])

DeleteCall(k) ==
    CASE k.kind = "name" -> "C.ObjectDelete"
      [] k.kind = "symbol" -> "C.ObjectDeleteAnyKey"
      [] OTHER -> "C.ObjectDeleteIdx"

\* Object.Delete / Object.DeleteSymbol / Object.DeleteIdx.
Delete(o, k) ==
    LET d == ObjectDelete(o, k)
    IN  Outcome(d.props, proto, fields,
                [NoResult EXCEPT !.op = "Delete", !.obj = o, !.key = k,
                                 !.flag = d.deleted,
                                 !.trace = KeyEvents(k, DeleteCall(k))])

SetInternalField_OffByOne(o, idx, val) ==
    LET c == coerceValue(val)
        e == ObjectSetInternalField(o, CInt(idx) + 1, c.value)
        l == [NoResult EXCEPT !.op = "SetInternalField", !.obj = o, !.idx = idx,
                              !.input = val]
    IN  IF c.err # Nil
        THEN Outcome(props, proto, fields,
                     [l EXCEPT !.err = c.err, !.trace = c.trace])
        ELSE IF ~e.inserted
        THEN Outcome(props, proto, e.fields,
                     [l EXCEPT !.panic = TRUE, !.engineOk = FALSE,
                               !.num = ObjectInternalFieldCount(o),
                               !.trace = c.trace \o <<"C.ObjectSetInternalField",
                                                      "C.ObjectInternalFieldCount">>])
        ELSE Outcome(props, proto, e.fields,
                     [l EXCEPT !.trace = c.trace \o <<"C.ObjectSetInternalField">>])

\* Object.SetInternalField: coercion first, then the boundary call; a refused
\* insert panics with a message that reads the field count.
SetInternalField(o, idx, val) ==
    LET c == coerceValue(val)
        e == ObjectSetInternalField(o, CInt(idx), c.value)
        l == [NoResult EXCEPT !.op = "SetInternalField", !.obj = o, !.idx = idx,
                              !.input = val]
    IN  IF c.err # Nil
        THEN Outcome(props, proto, fields,
                     [l EXCEPT !.err = c.err, !.trace = c.trace])
        ELSE IF ~e.inserted
        THEN Outcome(props, proto, e.fields,
                     [l EXCEPT !.panic = TRUE, !.engineOk = FALSE,
                               !.num = ObjectInternalFieldCount(o),
                               !.trace = c.trace \o <<"C.ObjectSetInternalField",
                                                      "C.ObjectInternalFieldCount">>])
        ELSE Outcome(props, proto, e.fields,
                     [l EXCEPT !.trace = c.trace \o <<"C.ObjectSetInternalField">>])

\* Object.InternalFieldCount.
InternalFieldCount(o) ==
    Outcome(props, proto, fields,
            [NoResult EXCEPT !.op = "InternalFieldCount", !.obj = o,
                             !.num = ObjectInternalFieldCount(o),
                             !.trace = <<"C.ObjectInternalFieldCount">>])

GetInternalField_NoPanic(o, idx) ==
    Outcome(props, proto, fields,
            [NoResult EXCEPT !.op = "GetInternalField", !.obj = o, !.idx = idx,
                             !.rtn = ObjectGetInternalField(o, CInt(idx)).value,
                             !.trace = <<"C.ObjectGetInternalField">>])

\* Object.GetInternalField: a null value from the boundary panics.
GetInternalField(o, idx) ==
    LET r == ObjectGetInternalField(o, CInt(idx))
        l == [NoResult EXCEPT !.op = "GetInternalField", !.obj = o, !.idx = idx,
                              !.trace = <<"C.ObjectGetInternalField">>]
    IN  IF r.value = NilValue
        THEN Outcome(props, proto, fields, [l EXCEPT !.panic = TRUE])
        ELSE Outcome(props, proto, fields, [l EXCEPT !.rtn = r.value])

\* Object.GetPrototype: a new Object handle over the boundary's value.
GetPrototype(o) ==
    Outcome(props, proto, fields,
            [NoResult EXCEPT !.op = "GetPrototype", !.obj = o,
                             !.rtn = ObjectGetPrototype(o),
                             !.trace = <<"C.ObjectGetPrototype">>])

\* Object.SetPrototype: nothing comes back from the boundary and nothing is
\* returned.
SetPrototype(o, p) ==
    LET e == ObjectSetPrototype(o, p)
    IN  Outcome(props, e.proto, fields,
                [NoResult EXCEPT !.op = "SetPrototype", !.obj = o, !.target = p,
                                 !.engineOk = e.ok,
                                 !.trace = <<"C.ObjectSetPrototype">>])

MethodCall_SkipsGetErr(o, k, args) ==
    LET g == valueResult(ObjectGet(o, k))
        f == AsFunction(g.value)
        r == Call(f.fn, o, args)
        l == [NoResult EXCEPT !.op = "MethodCall", !.obj = o, !.key = k,
                              !.args = args]
    IN  IF f.err # Nil
        THEN Outcome(props, proto, fields,
                     [l EXCEPT !.err = f.err,
                               !.trace = <<"CString", "C.ObjectGet", "free">>])
        ELSE Outcome(props, proto, fields,
                     [l EXCEPT !.rtn = r.value, !.err = r.err,
                               !.calls = <<[fn |-> f.fn, recv |-> o, args |-> args]>>,
                               !.trace = <<"CString", "C.ObjectGet", "Call", "free">>])

\* Object.MethodCall: the key buffer is freed by defer, when the method
\* returns.
MethodCall(o, k, args) ==
    LET g == valueResult(ObjectGet(o, k))
        f == AsFunction(g.value)
        r == Call(f.fn, o, args)
        l == [NoResult EXCEPT !.op = "MethodCall", !.obj = o, !.key = k,
                              !.args = args]
    IN  IF g.err # Nil
        THEN Outcome(props, proto, fields,
                     [l EXCEPT !.err = g.err,
                               !.trace = <<"CString", "C.ObjectGet", "free">>])
        ELSE IF f.err # Nil
        THEN Outcome(props, proto, fields,
                     [l EXCEPT !.err = f.err,
                               !.trace = <<"CString", "C.ObjectGet", "free">>])
        ELSE Outcome(props, proto, fields,
                     [l EXCEPT !.rtn = r.value, !.err = r.err,
                               !.calls = <<[fn |-> f.fn, recv |-> o, args |-> args]>>,
                               !.trace = <<"CString", "C.ObjectGet", "Call", "free">>])

\* coerceValue called on its own.
Coerce(val) ==
    LET c == coerceValue(val)
    IN  Outcome(props, proto, fields,
                [NoResult EXCEPT !.op = "coerceValue", !.input = val,
                                 !.rtn = c.value, !.err = c.err, !.trace = c.trace])

(* ----------------------------------------------------------------- state *)

\* Own data properties and written internal fields held by the engine.
Populated(p, f) ==
    Cardinality({ok \in Objs \X Keys : p[ok[1]][ok[2]] \notin {Absent, Accessor}})
    + Cardinality({oi \in {x \in Objs \X (1..2) : x[2] <= FieldCount(x[1])} :
                     f[oi[1]][oi[2]] # Undefined})

\* Index arguments of the internal field operations (uint32).
FieldIdxs == {U32(0, 0), U32(0, 1), U32(1, 2147483647)}

ArgLists == {<<>>, <<Val("String", "a", 0), FnThrow>>}

\* o1 is a fresh instance of a template with two internal fields; o2 comes from
\* script and has an accessor property "k" whose getter throws and that has no
\* setter.
Init ==
    /\ props = [o \in Objs |-> [k \in Keys |->
                   IF o = "o2" /\ k = Key("name", "k", 0) THEN Accessor ELSE Absent]]
    /\ proto = [o \in Objs |-> NoObj]
    /\ fields = [o \in Objs |-> [i \in 1..FieldCount(o) |-> Undefined]]
    /\ fieldLog = [o \in Objs |-> [i \in 1..FieldCount(o) |-> Undefined]]
    /\ last = NoResult

Changed(out) ==
    (IF out.props # props THEN {"props"} ELSE {})
    \cup (IF out.proto # proto THEN {"proto"} ELSE {})
    \cup (IF out.fields # fields THEN {"fields"} ELSE {})

Apply(out) ==
    /\ Populated(out.props, out.fields) <= MaxSlots
    /\ props' = out.props
    /\ proto' = out.proto
    /\ fields' = out.fields
    /\ last' = [out.last EXCEPT !.changed = Changed(out)]

DoSet == \E o \in Objs, k \in Keys, val \in WriteInputs :
    Apply(Set(o, k, val)) /\ UNCHANGED fieldLog

DoGet == \E o \in Objs, k \in Keys :
    Apply(Get(o, k)) /\ UNCHANGED fieldLog

DoHas == \E o \in Objs, k \in Keys :
    Apply(Has(o, k)) /\ UNCHANGED fieldLog

DoDelete == \E o \in Objs, k \in Keys :
    Apply(Delete(o, k)) /\ UNCHANGED fieldLog

\* fieldLog remembers, per slot, the coerced value of the latest
\* SetInternalField that returned without error or panic.
DoSetInternalField == \E o \in Objs, idx \in FieldIdxs, val \in FieldInputs :
    LET out == SetInternalField(o, idx, val) IN
    /\ Apply(out)
    /\ fieldLog' = IF out.last.err = Nil /\ ~out.last.panic
                   THEN [fieldLog EXCEPT ![o][idx.lo + 1] = coerceValue(val).value]
                   ELSE fieldLog

DoInternalFieldCount == \E o \in Objs :
    Apply(InternalFieldCount(o)) /\ UNCHANGED fieldLog

DoGetInternalField == \E o \in Objs, idx \in FieldIdxs :
    Apply(GetInternalField(o, idx)) /\ UNCHANGED fieldLog

DoGetPrototype == \E o \in Objs :
    Apply(GetPrototype(o)) /\ UNCHANGED fieldLog

DoSetPrototype == \E o \in Objs, p \in Objs \cup {NoObj} :
    Apply(SetPrototype(o, p)) /\ UNCHANGED fieldLog

DoMethodCall == \E o \in Objs, k \in NameKeys, args \in ArgLists :
    Apply(MethodCall(o, k, args)) /\ UNCHANGED fieldLog

DoCoerce == \E val \in AllInputs :
    Apply(Coerce(val)) /\ UNCHANGED fieldLog

\* Set by name with every input shape.
DoSetShape == \E o \in Objs, k \in NameKeys, val \in AllInputs :
    Apply(Set(o, k, val)) /\ UNCHANGED fieldLog

Next ==
    \/ DoSet
    \/ DoGet
    \/ DoHas
    \/ DoDelete
    \/ DoSetInternalField
    \/ DoInternalFieldCount
    \/ DoGetInternalField
    \/ DoGetPrototype
    \/ DoSetPrototype
    \/ DoMethodCall

Spec == Init /\ [][Next]_vars

\* The same objects, exercised with every input shape on the name key.
NextShapes ==
    \/ DoCoerce
    \/ DoSetShape
    \/ DoGet
    \/ DoDelete

SpecShapes == Init /\ [][NextShapes]_vars

(* ================================================================ claims *)

BoundaryEvents ==
    {"C.ObjectSet", "C.ObjectSetAnyKey", "C.ObjectSetIdx",
     "C.ObjectGet", "C.ObjectGetAnyKey", "C.ObjectGetIdx",
     "C.ObjectHas", "C.ObjectHasAnyKey", "C.ObjectHasIdx",
     "C.ObjectDelete", "C.ObjectDeleteAnyKey", "C.ObjectDeleteIdx",
     "C.ObjectSetInternalField", "C.ObjectGetInternalField",
     "C.ObjectInternalFieldCount", "C.ObjectGetPrototype", "C.ObjectSetPrototype"}

Events(trace, set) == {i \in 1..Len(trace) : trace[i] \in set}

IsCoercible(val) == val.go \in PrimitiveTypes \cup {"Valuer"}

\* The Value a coercible input is expected to become.
Coerced(val) ==
    IF val.go = "Valuer" THEN val.v ELSE Val(EngineType(val.go), val.s, val.n)

\* Some object on o's prototype chain, o included, owns key k.
OnChain(o, k) == \E w \in Chain(o) : props[w][k] # Absent

(* ---- C1 ---- *)

\* C1: a write operation (Set by name, symbol or index, SetInternalField) given
\* an input that is not coercible returns the unsupported-type error, makes no
\* boundary call and leaves properties, internal fields and prototype links
\* as they were.
C1_UnsupportedWriteTouchesNothing ==
    (last.op \in {"Set", "SetInternalField"} /\ ~IsCoercible(last.input)) =>
        /\ last.err = UnsupportedType(last.input.go)
        /\ ~last.panic
        /\ Events(last.trace, BoundaryEvents) = {}
        /\ last.changed = {}

C1_Witness ==
    /\ last.op = "Set"
    /\ last.key.kind = "symbol"
    /\ last.err.kind = "UnsupportedType"
    /\ Populated(props, fields) > 0

(* ---- C2 ---- *)

\* C2: a Set(obj, k, v) that returns no error, immediately followed by
\* Get(obj, k), returns successfully the coerced form of v.
C2_SetThenGet ==
    (last.op = "Set" /\ last.err = Nil) =>
        LET g == Get(last.obj, last.key).last IN
        g.err = Nil /\ g.rtn = Coerced(last.input)

(* ---- C3 ---- *)

C4_MethodCallOutcomes ==
    last.op = "MethodCall" =>
        LET g == Get(last.obj, last.key).last IN
        CASE g.err # Nil ->
               last.err = g.err /\ last.calls = <<>> /\ last.rtn = NilValue
          [] g.err = Nil /\ g.rtn.t # "Function" ->
               last.err = NotAFunction /\ last.calls = <<>> /\ last.rtn = NilValue
          [] OTHER ->
               /\ last.calls = <<[fn |-> g.rtn, recv |-> last.obj, args |-> last.args]>>
               /\ last.rtn = Call(g.rtn, last.obj, last.args).value
               /\ last.err = Call(g.rtn, last.obj, last.args).err

C4_Witness ==
    /\ last.op = "MethodCall"
    /\ Len(last.calls) = 1
    /\ Len(last.args) = 2
    /\ last.rtn = ArrayVal(<<ObjVal(last.obj)>> \o last.args)

(* ---- C5 ---- *)

\* C5 as stated: SetInternalField or GetInternalField with
\* idx >= InternalFieldCount(obj) panics, whatever the input.
C5_OutOfRangeAlwaysPanics ==
    (last.op \in {"SetInternalField", "GetInternalField"}
       /\ U32AtLeast(last.idx, InternalFieldCount(last.obj).last.num)) =>
        last.panic /\ last.err = Nil /\ last.rtn = NilValue

\* C5 amended: with idx >= InternalFieldCount(obj), GetInternalField panics,
\* and SetInternalField panics for every coercible input; given an input that
\* is not coercible SetInternalField returns the unsupported-type error
\* instead.  Neither changes the engine state.
C5_OutOfRangePanicsAfterCoercion ==
    (last.op \in {"SetInternalField", "GetInternalField"}
       /\ U32AtLeast(last.idx, InternalFieldCount(last.obj).last.num)) =>
        /\ last.changed = {}
        /\ last.rtn = NilValue
        /\ IF last.op = "SetInternalField" /\ ~IsCoercible(last.input)
           THEN ~last.panic /\ last.err = UnsupportedType(last.input.go)
           ELSE last.panic /\ last.err = Nil

C5_Witness ==
    /\ last.op = "SetInternalField"
    /\ last.obj = "o1"
    /\ last.idx.hi = 1
    /\ IsCoercible(last.input)
    /\ last.panic

(* ---- C6 ---- *)

\* C6: for idx < InternalFieldCount(obj), GetInternalField returns the value of
\* the latest successful SetInternalField on that slot, or undefined if there
\* was none, whatever property and prototype operations came in between; and
\* SetInternalField leaves properties, prototype links and the field count
\* alone.
C6_InternalFieldsAreDisjoint ==
    /\ \A o \in Objs, idx \in FieldIdxs :
          ~U32AtLeast(idx, InternalFieldCount(o).last.num) =>
              LET g == GetInternalField(o, idx).last IN
              ~g.panic /\ g.rtn = fieldLog[o][idx.lo + 1]
    /\ \A o \in Objs : Len(fields[o]) = InternalFieldCount(o).last.num
    /\ last.op = "SetInternalField" => last.changed \subseteq {"fields"}

\* Both slots of o1 hold different values while a property operation ran last.
C6_Witness ==
    /\ last.op \in {"Set", "Delete", "SetPrototype"}
    /\ last.changed # {}
    /\ fieldLog["o1"][1] # Undefined
    /\ fieldLog["o1"][2] # Undefined
    /\ fieldLog["o1"][1] # fieldLog["o1"][2]

(* ---- C7 ---- *)

\* C7: when the input coerces but the engine-side set fails, Set returns an
\* error; Set returns no error only when the property holds the coerced value.
C7_EngineFailureSurfaces ==
    (last.op = "Set" /\ IsCoercible(last.input)) =>
        /\ ~last.engineOk => last.err # Nil
        /\ last.err = Nil => props[last.obj][last.key] = Coerced(last.input)

(* ---- C8 ---- *)

\* C8: after SetPrototype(obj, p), GetPrototype(obj) is a handle on p's value,
\* GetPrototype changes nothing, and a boundary failure of SetPrototype is not
\* silently ignored.
C8_PrototypeRoundTrip ==
    /\ last.op = "SetPrototype" =>
          /\ GetPrototype(last.obj).last.rtn
               = (IF last.target = NoObj THEN NullVal ELSE ObjVal(last.target))
          /\ ~last.engineOk => (last.panic \/ last.err # Nil)
    /\ last.op = "GetPrototype" => last.changed = {} /\ ~last.panic /\ last.err = Nil

(* ---- C9 ---- *)

\* C9: coerceValue is decided by the input's shape: a primitive gives one newly
\* allocated Value of the matching engine type and no error, a Valuer gives its
\* own Value and allocates nothing, anything else gives the unsupported-type
\* error naming the type and allocates nothing.
C9_CoercionByShape ==
    last.op = "coerceValue" =>
        CASE last.input.go \in PrimitiveTypes ->
               /\ last.err = Nil
               /\ last.rtn = Val(EngineType(last.input.go), last.input.s, last.input.n)
               /\ last.rtn.t \in {"String", "Int32", "Uint32", "BigInt", "Number", "Boolean"}
               /\ last.trace = <<"NewValue">>
          [] last.input.go = "Valuer" ->
               last.err = Nil /\ last.rtn = last.input.v /\ last.trace = <<>>
          [] OTHER ->
               /\ last.err = UnsupportedType(last.input.go)
               /\ last.rtn = NilValue
               /\ last.trace = <<>>

C9_Witness ==
    /\ last.op = "coerceValue"
    /\ last.input.go = "map[string]int"
    /\ last.err.kind = "UnsupportedType"

(* ---- C10 ---- *)

NameKeyed(l) ==
    l.op \in {"Get", "Set", "Has", "Delete", "MethodCall"} /\ l.key.kind = "name"

\* C10 as stated: the key buffer is acquired right before the boundary call and
\* released right after it, never held during a later step of the operation.
C10_BufferReleasedRightAfterCall ==
    NameKeyed(last) =>
        \A i \in Events(last.trace, {"CString"}) :
            /\ i + 2 <= Len(last.trace)
            /\ last.trace[i + 1] \in BoundaryEvents
            /\ last.trace[i + 2] = "free"

\* C10 amended: the key buffer is acquired right before the boundary call and
\* released exactly once, as the last thing the operation does, on every exit
\* path; none is acquired when coercion fails.  In MethodCall it stays held
\* while the function runs.
C10_BufferReleasedOnReturn ==
    NameKeyed(last) =>
        LET t == last.trace
            acq == Events(t, {"CString"})
            rel == Events(t, {"free"})
        IN  /\ Cardinality(acq) = Cardinality(rel)
            /\ Cardinality(acq) <= 1
            /\ (acq = {}) <=> (last.op = "Set" /\ ~IsCoercible(last.input))
            /\ \A i \in acq :
                  /\ i < Len(t)
                  /\ t[i + 1] \in BoundaryEvents
                  /\ t[Len(t)] = "free"
                  /\ \A j \in (i + 2)..(Len(t) - 1) :
                        t[j] = "Call" /\ last.op = "MethodCall" /\ last.calls # <<>>

C10_Witness ==
    /\ last.op = "MethodCall"
    /\ last.trace = <<"CString", "C.ObjectGet", "Call", "free">>
    /\ last.err.kind = "JSError"

====
